---- MODULE Spec2Model ----
(***************************************************************************)
(* A model of src/index.ts (sharp-to-ico): toIco validates a source image, *)
(* asks the image library for the 48/32/16/256 renditions and hands them   *)
(* to imagesToIco, which assembles the ICO container out of getHeader,     *)
(* getDir, getBmpInfoHeader and getDib.                                    *)
(*                                                                         *)
(* Two specifications:                                                     *)
(*   Spec     toIco / imagesToIco with the real sizes 48, 32, 16 and 256.  *)
(*            Header, directory entries and bitmap info headers are real   *)
(*            bytes; a pixel payload is carried as the buffer getDib       *)
(*            allocates (its length, line 132), its 10^5 bytes elided.     *)
(*   SpecDib  getDib byte for byte on W x W raw buffers, W <= MaxWidth.    *)
(*                                                                         *)
(* The image library answers a raw request with the channels the image     *)
(* has: 4 (RGBA8) or fewer (a PNG without alpha gives 3).  getDib reads    *)
(* every pixel with a stride of 4 whatever the channel count is.           *)
(***************************************************************************)
EXTENDS Integers, Sequences, FiniteSets, TLC

VARIABLES
    pc,                \* toIco: "start" | "loop" | "done" | "failed"
    source,            \* what the image library knows of the input image
    image,             \* the Sharp instance `image` (its pending resize)
    resizeLog,         \* resize requests made to the library, in order
    images,            \* the list handed to imagesToIco
    i,                 \* 1-based position of `img` in the for-of loop
    headerAndIconDir,  \* line 32
    imageDataArr,      \* line 33
    len,               \* line 35
    offset,            \* line 36
    rawLog,            \* positions whose raw buffer was requested (line 39)
    thrown,            \* the rejection the library produced, or NoError
    result,            \* what toIco settled with
    dpc,               \* getDib: "call" | "ret" | "idle"
    dData,             \* getDib argument `data`
    dInfo,             \* getDib argument `info`
    dBuf               \* getDib return value

toIcoVars == <<pc, source, image, resizeLog, images, i, headerAndIconDir,
               imageDataArr, len, offset, rawLog, thrown, result>>
dibVars == <<dpc, dData, dInfo, dBuf>>
vars == <<pc, source, image, resizeLog, images, i, headerAndIconDir,
          imageDataArr, len, offset, rawLog, thrown, result,
          dpc, dData, dInfo, dBuf>>

----------------------------------------------------------------------------
(* Bounds of the model                                                     *)

\* SpecDib runs getDib on every width 1..MaxWidth.
MaxWidth == 33
\* SpecDib fills each width with the test images 0..MaxPattern.
MaxPattern == 4
\* Spec offers source images of width and height 1..MaxSrcSize, and 256.
MaxSrcSize == 5

----------------------------------------------------------------------------
(* Node Buffer primitives                                                  *)

Min(a, b) == IF a < b THEN a ELSE b
Max(a, b) == IF a > b THEN a ELSE b

\* Buffer.alloc(n): n zero bytes.
BufferAlloc(n) == [k \in 1..n |-> 0]

\* The n little-endian bytes of v (two's complement when v < 0): what
\* writeUInt8 / writeUInt16LE / writeUInt32LE / writeInt32LE store.
RECURSIVE LEBytes(_, _)
LEBytes(v, n) ==
    IF n = 0 THEN <<>> ELSE <<v % 256>> \o LEBytes(v \div 256, n - 1)

\* buf.writeXxx(v, pos) for an n-byte field, pos 0-based.
WriteLE(buf, v, pos, n) ==
    LET b == LEBytes(v, n)
    IN [k \in 1..Len(buf) |->
            IF k > pos /\ k <= pos + n THEN b[k - pos] ELSE buf[k]]

\* A Buffer being filled: the bytes, and whether a write or read fell
\* outside it (Node throws ERR_OUT_OF_RANGE and the call is abandoned).
Filling(bytes) == [bytes |-> bytes, rangeError |-> FALSE]

InRange(buf, pos, n) == pos >= 0 /\ pos + n <= Len(buf)

\* buf.writeInt32LE(value, pos), line 141.
writeInt32LE(f, value, pos) ==
    IF f.rangeError \/ ~InRange(f.bytes, pos, 4)
    THEN [f EXCEPT !.rangeError = TRUE]
    ELSE LET b == LEBytes(value, 4)
         IN [f EXCEPT !.bytes = [f.bytes EXCEPT ![pos + 1] = b[1],
                                                ![pos + 2] = b[2],
                                                ![pos + 3] = b[3],
                                                ![pos + 4] = b[4]]]

\* x | (bitVal << sh) for a byte x, bitVal in {0, 1}, 0 <= sh <= 7.
OrBit(x, bitVal, sh) ==
    IF bitVal = 1 /\ (x \div (2 ^ sh)) % 2 = 0 THEN x + 2 ^ sh ELSE x

\* buf.writeUInt8(buf.readUInt8(pos) | (bitVal << sh), pos), lines 161-162.
orUInt8(f, bitVal, sh, pos) ==
    IF f.rangeError \/ ~InRange(f.bytes, pos, 1)
    THEN [f EXCEPT !.rangeError = TRUE]
    ELSE [f EXCEPT !.bytes[pos + 1] = OrBit(f.bytes[pos + 1], bitVal, sh)]

----------------------------------------------------------------------------
(* getRowStride, getColorPixel, getDib                                     *)

\* Mutant: rows rounded up to whole bytes, not to 32 bits.
getRowStrideUnpadded(width) == (width + 7) \div 8

getRowStride(width) ==
    IF width % 32 = 0 THEN width \div 8 ELSE 4 * ((width \div 32) + 1)

\* What buffer[k] gives for an index outside the buffer: undefined.
Undefined == -1

\* buffer[index], index 0-based.
At(buffer, index) ==
    IF index + 1 \in DOMAIN buffer THEN buffer[index + 1] ELSE Undefined

\* The operand of | and << : undefined converts to 0.
ToInt32(v) == IF v = Undefined THEN 0 ELSE v

getColorPixel(buffer, x, y, width) ==
    LET pxPos == (y * width + x) * 4
    IN [r |-> At(buffer, pxPos + 0), g |-> At(buffer, pxPos + 1),
        b |-> At(buffer, pxPos + 2), a |-> At(buffer, pxPos + 3)]

\* b | (g << 8) | (r << 16) | (a << 24): a 32-bit signed integer in JS, so
\* negative once bit 31 (a >= 128) is set.
newColor(px) ==
    ToInt32(px.b) + ToInt32(px.g) * 256 + ToInt32(px.r) * 65536
      + (IF px.a >= 128 THEN px.a - 256 ELSE ToInt32(px.a)) * 16777216

\* Mutant: rows stored top-down.
xorPosTopDown(x, y, width, height) == (y * width + x) * 4

\* Line 139: where the colour word of source pixel (x, y) goes.
xorPos(x, y, width, height) == ((height - y - 1) * width + x) * 4

\* Mutant: a threshold at half opacity.
alphaBitThreshold(a) == IF a # Undefined /\ a > 127 THEN 0 ELSE 1

\* Line 150; undefined > 0 is false.
alphaBit(a) == IF a # Undefined /\ a > 0 THEN 0 ELSE 1

\* Lines 153-154.
width32(width) ==
    IF width % 32 = 0 THEN width \div 32 ELSE (width \div 32) + 1

\* Lines 151-160: byte of the AND map that holds pixel (x, y).
andPos(x, y, width, height, size) ==
    LET bitNum == (height - y - 1) * width + x
        line == bitNum \div width
        off == bitNum % width
    IN size + line * width32(width) * 4 + (off \div 8)

\* Line 161: the shift of pixel (x, y) inside that byte.
andShift(x, y, width, height) ==
    LET bitNum == (height - y - 1) * width + x
    IN 7 - ((bitNum % width) % 8)

\* Lines 134-143: the inner and the outer for loop, from x (from y) on.
\* A write that throws ends the call.
RECURSIVE xorRow(_, _, _, _, _)
xorRow(f, data, x, y, width) ==
    IF x >= width THEN f
    ELSE LET g == writeInt32LE(f, newColor(getColorPixel(data, x, y, width)),
                               xorPos(x, y, width, width))
         IN IF g.rangeError THEN g ELSE xorRow(g, data, x + 1, y, width)

RECURSIVE xorMap(_, _, _, _)
xorMap(f, data, y, width) ==
    IF y >= width THEN f
    ELSE LET g == xorRow(f, data, 0, y, width)
         IN IF g.rangeError THEN g ELSE xorMap(g, data, y + 1, width)

\* Lines 146-164.
RECURSIVE andRow(_, _, _, _, _, _)
andRow(f, data, x, y, width, size) ==
    IF x >= width THEN f
    ELSE LET g == orUInt8(f, alphaBit(getColorPixel(data, x, y, width).a),
                          andShift(x, y, width, width),
                          andPos(x, y, width, width, size))
         IN IF g.rangeError THEN g ELSE andRow(g, data, x + 1, y, width, size)

RECURSIVE andMap(_, _, _, _, _)
andMap(f, data, y, width, size) ==
    IF y >= width THEN f
    ELSE LET g == andRow(f, data, 0, y, width, size)
         IN IF g.rangeError THEN g ELSE andMap(g, data, y + 1, width, size)

\* Lines 130-132: the length of the buffer getDib allocates.
dibLength(info) == info.size + getRowStride(info.width) * info.width

getDib(data, info) ==
    LET buf == Filling(BufferAlloc(dibLength(info)))
        xor == xorMap(buf, data, 0, info.width)
    IN IF xor.rangeError THEN xor
       ELSE andMap(xor, data, 0, info.width, info.size)

----------------------------------------------------------------------------
(* The raw buffers getDib is run on                                        *)

AlphaVals == <<0, 255, 1, 128, 127, 0, 254>>

\* Test image p, pixel number n (row-major): r and g carry n, so all pixels
\* of an image differ; image 0 is opaque, image 1 transparent, the others
\* mix alpha 0 with alpha > 0 and alpha >= 128.
TestPixel(p, n) ==
    <<n % 256, (n \div 256) % 256, (n * 31 + p * 7 + 200) % 256,
      IF p = 0 THEN 255
      ELSE IF p = 1 THEN 0
      ELSE AlphaVals[((n * (p - 1) + (n \div 3)) % Len(AlphaVals)) + 1]>>

\* The w x w test image p with c channels per pixel (the first c of r, g,
\* b, a), row-major and top-down.
TestData(w, p, c) ==
    [k \in 1..(w * w * c) |-> TestPixel(p, (k - 1) \div c)[((k - 1) % c) + 1]]

\* The channel counts a raw buffer of the library can have.
Channels == 1..4

\* OutputInfo of a raw w x w buffer with c channels of 8 bits.
RawInfo(w, c) ==
    [width |-> w, height |-> w, channels |-> c, size |-> w * w * c]

\* Lines 126-167: whether getDib(data, info) throws, that is whether one of
\* its writes falls outside the buffer of line 132.  (No read throws: an
\* index outside `data` reads undefined, and the AND map byte is read at
\* the position it is then written at.)
getDibThrows(info) ==
    LET w == info.width
        n == dibLength(info)
    IN ~ \A x \in 0..(w - 1), y \in 0..(w - 1) :
            /\ 0 <= xorPos(x, y, w, w) /\ xorPos(x, y, w, w) + 4 <= n
            /\ 0 <= andPos(x, y, w, w, info.size)
            /\ andPos(x, y, w, w, info.size) + 1 <= n

NoBuffer == [bytes |-> <<>>, rangeError |-> FALSE]

----------------------------------------------------------------------------
(* getHeader, getDir, getBmpInfoHeader                                     *)

getHeader(numOfImages) ==
    LET b0 == BufferAlloc(6)
        b1 == WriteLE(b0, 0, 0, 2)
        b2 == WriteLE(b1, 1, 2, 2)
    IN WriteLE(b2, numOfImages, 4, 2)

\* Mutant: a data size that counts the AND map too.
getDirWithMask(info, off) ==
    LET size == info.size + 40 + getRowStride(info.width) * info.width
        width == IF info.width >= 256 THEN 0 ELSE info.width
        b0 == BufferAlloc(16)
        b1 == WriteLE(b0, width, 0, 1)
        b2 == WriteLE(b1, width, 1, 1)
        b5 == WriteLE(b2, 1, 4, 2)
        b6 == WriteLE(b5, 32, 6, 2)
        b7 == WriteLE(b6, size, 8, 4)
    IN WriteLE(b7, off, 12, 4)

getDir(info, off) ==
    LET size == info.size + 40
        width == IF info.width >= 256 THEN 0 ELSE info.width
        height == width
        bpp == 32
        b0 == BufferAlloc(16)
        b1 == WriteLE(b0, width, 0, 1)
        b2 == WriteLE(b1, height, 1, 1)
        b3 == WriteLE(b2, 0, 2, 1)
        b4 == WriteLE(b3, 0, 3, 1)
        b5 == WriteLE(b4, 1, 4, 2)
        b6 == WriteLE(b5, bpp, 6, 2)
        b7 == WriteLE(b6, size, 8, 4)
    IN WriteLE(b7, off, 12, 4)

getBmpInfoHeader(info) ==
    LET width == info.width
        height == width * 2
        bpp == 32
        b0 == BufferAlloc(40)
        b1 == WriteLE(b0, 40, 0, 4)
        b2 == WriteLE(b1, width, 4, 4)
        b3 == WriteLE(b2, height, 8, 4)
        b4 == WriteLE(b3, 1, 12, 2)
        b5 == WriteLE(b4, bpp, 14, 2)
        b6 == WriteLE(b5, 0, 16, 4)
        b7 == WriteLE(b6, 0, 20, 4)
        b8 == WriteLE(b7, 0, 24, 4)
        b9 == WriteLE(b8, 0, 28, 4)
        b10 == WriteLE(b9, 0, 32, 4)
    IN WriteLE(b10, 0, 36, 4)

----------------------------------------------------------------------------
(* Buffers of the assembler (Spec)                                         *)

NoImage == [resizeTo |-> -1]

\* A Buffer whose bytes the model holds.
Bytes(b) == [bytes |-> b, length |-> Len(b), pixelsOf |-> NoImage]

\* The Buffer getDib returns for the raw pixels of `data`: line 132 fixes its
\* length; its content is what SpecDib computes and is not carried here.
getDibBuffer(data, info) ==
    [bytes |-> <<>>, length |-> dibLength(info), pixelsOf |-> data.pixelsOf]

RECURSIVE SumLength(_, _)
SumLength(list, n) ==
    IF n = 0 THEN 0 ELSE SumLength(list, n - 1) + list[n].length

NoIco == [length |-> 0, parts |-> <<>>, zeroFilled |-> 0]

\* Buffer.concat(list, totalLength): a buffer of exactly totalLength bytes;
\* the parts are copied in order until it is full, a part that does not fit
\* is cut, and what the parts do not cover is zero-filled.
BufferConcat(list, totalLength) ==
    [length |-> totalLength,
     parts |-> [k \in 1..Len(list) |->
                  [start |-> SumLength(list, k - 1),
                   buf |-> list[k],
                   copied |-> Max(0, Min(list[k].length,
                                         totalLength - SumLength(list, k - 1)))]],
     zeroFilled |-> Max(0, totalLength - SumLength(list, Len(list)))]

----------------------------------------------------------------------------
(* The image library (sharp) as toIco uses it                              *)

CanonicalSize == 256

sizeList == <<48, 32, 16>>

err == "Please give me a square PNG image."

Formats == {"png", "jpeg", "webp"}
SrcSizes == (1..MaxSrcSize) \cup {CanonicalSize}
Sources == [format : Formats, width : SrcSizes, height : SrcSizes]
LibraryErrors == {"ResizeFailure", "BufferAllocationFailure"}

\* image.resize(n, n, {kernel: 'cubic'}): sets the pending resize of the
\* instance, replacing an earlier one.  image.clone() copies the instance.
resize(img, n) == [img EXCEPT !.resizeTo = n]
clone(img) == img

\* The width of img's pixels: its pending size, or the source's size.
rawWidth(img, src) == IF img.resizeTo = 0 THEN src.width ELSE img.resizeTo

\* img.raw().toBuffer({resolveWithObject: true}), when it resolves: the
\* pixels of img with c channels each.
rawToBuffer(img, src, c) ==
    [data |-> [pixelsOf |-> img], info |-> RawInfo(rawWidth(img, src), c)]

----------------------------------------------------------------------------
(* toIco and imagesToIco                                                   *)

\* Mutant: the square test forgotten.
validInputFormatOnly(info) == info.format = "png"

\* Line 10, negated.
validInput(info) == info.format = "png" /\ info.width = info.height

\* Lines 13-18.
canonical(img, size) ==
    IF size # CanonicalSize THEN resize(img, CanonicalSize) ELSE img

\* Mutant: the 256 image put first.
imageListOriginalFirst(img) ==
    <<img>> \o [k \in 1..Len(sizeList) |-> resize(clone(img), sizeList[k])]

\* Lines 20-27: resizedImages.concat(image).
imageList(img) ==
    [k \in 1..Len(sizeList) |-> resize(clone(img), sizeList[k])] \o <<img>>

\* The resize calls of lines 13-25, in order.
resizeCalls(size) ==
    (IF size # CanonicalSize THEN <<CanonicalSize>> ELSE <<>>) \o sizeList

\* Mutant: the directory entry left out of the length.
nextLenNoDir(l, dir, bmpInfoHeader, dib) ==
    l + bmpInfoHeader.length + dib.length

\* Mutant: the info header left out of the offset.
nextOffsetNoHeader(o, bmpInfoHeader, dib) == o + dib.length

\* Mutant: the length started where the offset starts.
initLenWithDirs(header) == Len(header) + 16 * (Len(sizeList) + 1)

\* Line 35.
initLen(header) == Len(header)
\* Line 36.
initOffset(header, imgs) == Len(header) + 16 * Len(imgs)
\* Line 50.
nextLen(l, dir, bmpInfoHeader, dib) ==
    l + dir.length + bmpInfoHeader.length + dib.length
\* Line 51.
nextOffset(o, bmpInfoHeader, dib) == o + bmpInfoHeader.length + dib.length

Pending == [kind |-> "pending", error |-> "NoError", buffer |-> NoIco]
Rejected(e) == [kind |-> "error", error |-> e, buffer |-> NoIco]
Resolved(b) == [kind |-> "buffer", error |-> "NoError", buffer |-> b]

DibIdle ==
    /\ dpc = "idle"
    /\ dData = <<>>
    /\ dInfo = RawInfo(0, 4)
    /\ dBuf = NoBuffer

Init ==
    /\ pc = "start"
    /\ source \in Sources
    /\ image = [resizeTo |-> 0]
    /\ resizeLog = <<>>
    /\ images = <<>>
    /\ i = 0
    /\ headerAndIconDir = <<>>
    /\ imageDataArr = <<>>
    /\ len = 0
    /\ offset = 0
    /\ rawLog = <<>>
    /\ thrown = "NoError"
    /\ result = Pending
    /\ DibIdle

\* Line 8 rejects: the library cannot read the input.
InfoRejected ==
    /\ pc = "start"
    /\ \E e \in LibraryErrors :
          /\ thrown' = e
          /\ result' = Rejected(e)
    /\ pc' = "failed"
    /\ UNCHANGED <<source, image, resizeLog, images, i, headerAndIconDir,
                   imageDataArr, len, offset, rawLog>>
    /\ UNCHANGED dibVars

\* Line 8 resolves and lines 10-11 throw.
ToIcoInvalid ==
    /\ pc = "start"
    /\ ~validInput(source)
    /\ result' = Rejected(err)
    /\ pc' = "failed"
    /\ UNCHANGED <<source, image, resizeLog, images, i, headerAndIconDir,
                   imageDataArr, len, offset, rawLog, thrown>>
    /\ UNCHANGED dibVars

\* Line 8 resolves, lines 9-27 run and imagesToIco runs up to its first
\* await (lines 31-41, the raw buffer of the first image is requested).
ToIcoValid ==
    /\ pc = "start"
    /\ validInput(source)
    /\ LET img == canonical(image, source.width)
           list == imageList(img)
           header == getHeader(Len(list))
       IN /\ image' = img
          /\ resizeLog' = resizeCalls(source.width)
          /\ images' = list
          /\ headerAndIconDir' = <<Bytes(header)>>
          /\ imageDataArr' = <<>>
          /\ len' = initLen(header)
          /\ offset' = initOffset(header, list)
          /\ i' = 1
          /\ rawLog' = <<1>>
          /\ pc' = "loop"
    /\ UNCHANGED <<source, thrown, result>>
    /\ UNCHANGED dibVars

\* What an exception of Node's Buffer carries as its code.
RangeError == "ERR_OUT_OF_RANGE"

\* The await of lines 39-41 resolves and getDib (line 45) throws: the
\* exception leaves the loop, imagesToIco and toIco before lines 47-51.
LoopThrow ==
    /\ pc = "loop"
    /\ \E c \in Channels :
          getDibThrows(rawToBuffer(images[i], source, c).info)
    /\ result' = Rejected(RangeError)
    /\ pc' = "failed"
    /\ UNCHANGED <<source, image, resizeLog, images, i, headerAndIconDir,
                   imageDataArr, len, offset, rawLog, thrown>>
    /\ UNCHANGED dibVars

\* The await of lines 39-41 resolves: lines 43-51 for images[i], then
\* either the next iteration up to its await, or line 54.
LoopBody ==
    /\ pc = "loop"
    /\ \E c \in Channels :
       LET raw == rawToBuffer(images[i], source, c)
           dir == Bytes(getDir(raw.info, offset))
           bmpInfoHeader == Bytes(getBmpInfoHeader(raw.info))
           dib == getDibBuffer(raw.data, raw.info)
           hd == Append(headerAndIconDir, dir)
           arr == imageDataArr \o <<bmpInfoHeader, dib>>
           l == nextLen(len, dir, bmpInfoHeader, dib)
       IN /\ ~getDibThrows(raw.info)
          /\ headerAndIconDir' = hd
          /\ imageDataArr' = arr
          /\ len' = l
          /\ offset' = nextOffset(offset, bmpInfoHeader, dib)
          /\ IF i < Len(images)
             THEN /\ i' = i + 1
                  /\ rawLog' = Append(rawLog, i + 1)
                  /\ pc' = "loop"
                  /\ result' = result
             ELSE /\ i' = i
                  /\ rawLog' = rawLog
                  /\ pc' = "done"
                  /\ result' = Resolved(BufferConcat(hd \o arr, l))
    /\ UNCHANGED <<source, image, resizeLog, images, thrown>>
    /\ UNCHANGED dibVars

\* Mutant: a rejected image is skipped and the rest is still assembled.
LoopRejectSkip ==
    /\ pc = "loop"
    /\ \E e \in LibraryErrors : thrown' = e
    /\ IF i < Len(images)
       THEN /\ i' = i + 1
            /\ rawLog' = Append(rawLog, i + 1)
            /\ pc' = "loop"
            /\ result' = result
       ELSE /\ i' = i
            /\ rawLog' = rawLog
            /\ pc' = "done"
            /\ result' = Resolved(BufferConcat(headerAndIconDir \o imageDataArr,
                                               len))
    /\ UNCHANGED <<source, image, resizeLog, images, headerAndIconDir,
                   imageDataArr, len, offset>>
    /\ UNCHANGED dibVars

\* The await of lines 39-41 rejects: the exception leaves the loop,
\* imagesToIco and toIco.
LoopReject ==
    /\ pc = "loop"
    /\ \E e \in LibraryErrors :
          /\ thrown' = e
          /\ result' = Rejected(e)
    /\ pc' = "failed"
    /\ UNCHANGED <<source, image, resizeLog, images, i, headerAndIconDir,
                   imageDataArr, len, offset, rawLog>>
    /\ UNCHANGED dibVars

Next ==
    \/ InfoRejected
    \/ ToIcoInvalid
    \/ ToIcoValid
    \/ LoopBody
    \/ LoopThrow
    \/ LoopReject

Spec == Init /\ [][Next]_vars

----------------------------------------------------------------------------
(* SpecDib: one call of getDib                                             *)

ToIcoIdle ==
    /\ pc = "idle"
    /\ source = [format |-> "png", width |-> CanonicalSize, height |-> CanonicalSize]
    /\ image = [resizeTo |-> 0]
    /\ resizeLog = <<>>
    /\ images = <<>>
    /\ i = 0
    /\ headerAndIconDir = <<>>
    /\ imageDataArr = <<>>
    /\ len = 0
    /\ offset = 0
    /\ rawLog = <<>>
    /\ thrown = "NoError"
    /\ result = Pending

InitDib ==
    /\ ToIcoIdle
    /\ dpc = "call"
    /\ \E w \in 1..MaxWidth, p \in 0..MaxPattern, c \in Channels :
          /\ dData = TestData(w, p, c)
          /\ dInfo = RawInfo(w, c)
    /\ dBuf = NoBuffer

GetDibCall ==
    /\ dpc = "call"
    /\ dBuf' = getDib(dData, dInfo)
    /\ dpc' = "ret"
    /\ UNCHANGED <<dData, dInfo>>
    /\ UNCHANGED toIcoVars

NextDib == GetDibCall

SpecDib == InitDib /\ [][NextDib]_vars

----------------------------------------------------------------------------
(* Reading the container back                                              *)

\* The unsigned little-endian n-byte field at 0-based position pos.
RECURSIVE ReadLE(_, _, _)
ReadLE(bytes, pos, n) ==
    IF n = 0 THEN 0 ELSE bytes[pos + 1] + 256 * ReadLE(bytes, pos + 1, n - 1)

\* Bit sh (0 = least significant) of a byte.
BitOf(byte, sh) == (byte \div (2 ^ sh)) % 2

\* Sizes as sections 4.3 and 4.5 of the specification state them.
RawSizeOf(w) == w * w * 4
RowStrideOf(w) == IF w % 32 = 0 THEN w \div 8 ELSE 4 * ((w \div 32) + 1)
MaskSizeOf(w) == RowStrideOf(w) * w

\* The widths the specification lists for the container, in order.
ListedWidths == <<48, 32, 16, 256>>

RECURSIVE ListedTotal(_)
ListedTotal(n) ==
    IF n = 0 THEN 6 + 16 * Len(ListedWidths)
    ELSE ListedTotal(n - 1)
           + 40 + RawSizeOf(ListedWidths[n]) + MaskSizeOf(ListedWidths[n])

Ico == result.buffer
NumImages == Len(images)
DirPart(k) == Ico.parts[1 + k]
BmpPart(k) == Ico.parts[NumImages + 2 * k]
DibPart(k) == Ico.parts[NumImages + 2 * k + 1]
DirOffset(k) == ReadLE(DirPart(k).buf.bytes, 12, 4)
DirDataSize(k) == ReadLE(DirPart(k).buf.bytes, 8, 4)
\* Images whose lines 43-51 have run.
Encoded == Len(imageDataArr) \div 2
PayloadLength(k) == imageDataArr[2 * k].length

RECURSIVE Advanced(_, _)
Advanced(n, perImage) ==
    IF n = 0 THEN 0
    ELSE Advanced(n - 1, perImage) + perImage + 40 + PayloadLength(n)

----------------------------------------------------------------------------
(* Claims about toIco and imagesToIco (Spec)                               *)

\* C1: for a valid square PNG the returned buffer is 6 + 16*4 + the sum over
\* the widths 48, 32, 16, 256 of (40 + W*W*4 + rowStride(W)*W) bytes long,
\* and the length handed to Buffer.concat is the summed length of the parts:
\* no part is cut and nothing is zero-filled.
C1_TotalLength ==
    pc = "done" =>
        /\ result.kind = "buffer"
        /\ Ico.length = ListedTotal(Len(ListedWidths))
        /\ len = SumLength(headerAndIconDir \o imageDataArr,
                           Len(headerAndIconDir) + Len(imageDataArr))
        /\ Ico.zeroFilled = 0
        /\ \A k \in 1..Len(Ico.parts) :
              Ico.parts[k].copied = Ico.parts[k].buf.length

C1_Witness ==
    /\ pc = "done"
    /\ source.width # CanonicalSize
    /\ Len(Ico.parts) = 1 + 3 * Len(ListedWidths)

\* C2: the file offset stored in directory entry k is the position in the
\* returned buffer where image k's 40-byte bitmap info header begins; the
\* offsets increase strictly with k and the regions
\* [offset_k, offset_k + 40 + payloadLength_k) do not overlap.
C2_Offsets ==
    /\ pc \in {"loop", "done"} =>
          \A k \in 1..Encoded :
              ReadLE(headerAndIconDir[k + 1].bytes, 12, 4)
                = SumLength(<<headerAndIconDir[1]>>, 1) + 16 * NumImages
                    + SumLength(imageDataArr, 2 * (k - 1))
    /\ pc = "done" =>
          /\ \A k \in 1..NumImages :
                /\ DirOffset(k) = BmpPart(k).start
                /\ BmpPart(k).copied = 40
                /\ ReadLE(BmpPart(k).buf.bytes, 0, 4) = 40
                /\ DibPart(k).start = DirOffset(k) + 40
                /\ DirOffset(k) + 40 + PayloadLength(k) <= Ico.length
          /\ \A k \in 1..(NumImages - 1) :
                /\ DirOffset(k) < DirOffset(k + 1)
                /\ DirOffset(k) + 40 + PayloadLength(k) <= DirOffset(k + 1)

C2_Witness ==
    /\ pc = "done"
    /\ source.width = CanonicalSize
    /\ DirOffset(NumImages) > DirOffset(1)

\* C3: when the source is not a PNG or is not square, toIco fails with the
\* fixed "square PNG" error before any resize or raw buffer is requested
\* and before any header, directory entry or payload is built, and returns
\* no buffer.
C3_InvalidInput ==
    (pc # "start" /\ thrown = "NoError"
       /\ (source.format # "png" \/ source.width # source.height)) =>
        /\ pc = "failed"
        /\ result = Rejected(err)
        /\ resizeLog = <<>>
        /\ rawLog = <<>>
        /\ images = <<>>
        /\ headerAndIconDir = <<>>
        /\ imageDataArr = <<>>

C3_Witness ==
    /\ pc = "failed"
    /\ result.error = err
    /\ source.format = "png"
    /\ source.width # source.height

\* C4: when the raw buffer of the k-th image cannot be produced the
\* conversion stops there: toIco fails with that very error and without a
\* buffer, images k+1.. are never requested, no image is requested twice,
\* and only the k-1 images before it were encoded.
C4_FailFast ==
    /\ rawLog = [k \in 1..Len(rawLog) |-> k]
    /\ thrown # "NoError" =>
          /\ pc = "failed"
          /\ result = Rejected(thrown)
          /\ Len(rawLog) = i
          /\ Len(headerAndIconDir) = i
          /\ Encoded = Max(i - 1, 0)
    /\ result.kind = "buffer" =>
          /\ thrown = "NoError"
          /\ Encoded = NumImages
          /\ Len(rawLog) = NumImages

C4_Witness ==
    /\ pc = "failed"
    /\ thrown = "ResizeFailure"
    /\ i = 3
    /\ Encoded = 2

\* C5: the list handed to the assembler is [48, 32, 16, 256] in that order,
\* the last entry being the untouched original exactly when the source is
\* 256 wide; the header counts 4 images; directory entry k, bitmap info
\* header k and payload k of the returned buffer all belong to image k.
C5_Order ==
    /\ pc \in {"loop", "done"} =>
          /\ NumImages = Len(ListedWidths)
          /\ \A k \in 1..NumImages :
                rawWidth(images[k], source) = ListedWidths[k]
          /\ images[NumImages] = image
          /\ (image.resizeTo = 0) <=> (source.width = 256)
          /\ \A k \in 1..Encoded :
                /\ ReadLE(headerAndIconDir[k + 1].bytes, 0, 1)
                     = ListedWidths[k] % 256
                /\ ReadLE(imageDataArr[2 * k - 1].bytes, 4, 4) = ListedWidths[k]
                /\ imageDataArr[2 * k].pixelsOf = images[k]
    /\ pc = "done" =>
          /\ Ico.parts[1].start = 0
          /\ ReadLE(Ico.parts[1].buf.bytes, 0, 2) = 0
          /\ ReadLE(Ico.parts[1].buf.bytes, 2, 2) = 1
          /\ ReadLE(Ico.parts[1].buf.bytes, 4, 2) = 4
          /\ \A k \in 1..NumImages :
                /\ DirPart(k).start = 6 + 16 * (k - 1)
                /\ ReadLE(DirPart(k).buf.bytes, 0, 1) = ListedWidths[k] % 256
                /\ ReadLE(DirPart(k).buf.bytes, 1, 1) = ListedWidths[k] % 256
                /\ ReadLE(BmpPart(k).buf.bytes, 4, 4) = ListedWidths[k]
                /\ ReadLE(BmpPart(k).buf.bytes, 8, 4) = 2 * ListedWidths[k]
                /\ DibPart(k).buf.pixelsOf = images[k]
                /\ DibPart(k).buf.length
                     = RawSizeOf(ListedWidths[k]) + MaskSizeOf(ListedWidths[k])

C5_Witness ==
    /\ pc = "done"
    /\ source.width # CanonicalSize
    /\ image.resizeTo = CanonicalSize
    /\ DibPart(NumImages).buf.pixelsOf = image

\* C6: the data size of directory entry k is rawPixelByteLength + 40 and
\* leaves the mask out, while the running offset counts it:
\* offset_(k+1) - offset_k = dataSize_k + maskSize_k, and the bytes image k
\* occupies exceed its declared data size by exactly maskSize_k.
C6_DataSize ==
    pc = "done" =>
        /\ \A k \in 1..NumImages :
              LET w == ReadLE(BmpPart(k).buf.bytes, 4, 4)
              IN /\ DirDataSize(k) = RawSizeOf(w) + 40
                 /\ MaskSizeOf(w) > 0
                 /\ BmpPart(k).copied + DibPart(k).copied
                      = DirDataSize(k) + MaskSizeOf(w)
        /\ \A k \in 1..(NumImages - 1) :
              DirOffset(k + 1) - DirOffset(k)
                = DirDataSize(k)
                    + MaskSizeOf(ReadLE(BmpPart(k).buf.bytes, 4, 4))

C6_Witness ==
    /\ pc = "done"
    /\ DirDataSize(1) = RawSizeOf(48) + 40
    /\ DirOffset(2) - DirOffset(1) > DirDataSize(1)

\* C7 as the specification states it: totalLength starts at
\* 6 + 16*imageCount, the initial value of runningOffset, and grows by
\* 16 + 40 + payloadLength per image; the buffer returned has that length.
C7_AsStated ==
    /\ pc \in {"loop", "done"} =>
          len = 6 + 16 * NumImages + Advanced(Encoded, 16)
    /\ pc = "done" => Ico.length = len

\* C7, amended: totalLength starts at the header size 6 (runningOffset
\* starts at 6 + 16*imageCount), grows by 16 + 40 + payloadLength per image,
\* and the buffer returned has the final totalLength as its length.
C7_TotalLengthCounter ==
    /\ pc \in {"loop", "done"} =>
          /\ len = 6 + Advanced(Encoded, 16)
          /\ offset = 6 + 16 * NumImages + Advanced(Encoded, 0)
    /\ pc = "done" => (Encoded = NumImages /\ Ico.length = len)

C7_Witness ==
    /\ pc = "loop"
    /\ Encoded = 2
    /\ len < offset

----------------------------------------------------------------------------
(* Claims about getDib (SpecDib)                                           *)

DibWidth == dInfo.width
\* Channel c (1 = r, 2 = g, 3 = b, 4 = a) of source pixel (x, y), top-down.
Channel(x, y, c) == dData[(y * DibWidth + x) * 4 + c]
Pixels == (0..(DibWidth - 1)) \X (0..(DibWidth - 1))
\* The input the specification gives getDib (section 4.5): an RGBA8 buffer,
\* W*W*4 bytes.
IsRGBA8 == dInfo.channels = 4 /\ Len(dData) = DibWidth * DibWidth * 4

\* getDib throws exactly when getDibThrows, which stands for it in Spec,
\* says so, and otherwise returns dibLength bytes.
GetDibThrowsAgrees ==
    dpc = "ret" =>
        /\ dBuf.rangeError = getDibThrows(dInfo)
        /\ Len(dBuf.bytes) = dibLength(dInfo)

\* C8: the colour word of source pixel (x, y) is the 4 bytes [b, g, r, a] at
\* byte ((W-1-y)*W + x)*4 of the result; every one of the W*W words is
\* written exactly once and holds the pixel of the mirrored row, for every
\* channel value, alpha >= 128 included.
C8_ColorMap ==
    (dpc = "ret" /\ IsRGBA8) =>
        /\ ~dBuf.rangeError
        /\ \A q \in Pixels :
              LET x == q[1]
                  y == q[2]
                  d == ((DibWidth - 1 - y) * DibWidth + x) * 4
              IN /\ dBuf.bytes[d + 1] = Channel(x, y, 3)
                 /\ dBuf.bytes[d + 2] = Channel(x, y, 2)
                 /\ dBuf.bytes[d + 3] = Channel(x, y, 1)
                 /\ dBuf.bytes[d + 4] = Channel(x, y, 4)
        /\ \A k \in 0..(DibWidth * DibWidth - 1) :
              LET x == k % DibWidth
                  y == DibWidth - 1 - (k \div DibWidth)
              IN /\ xorPos(x, y, DibWidth, DibWidth) = 4 * k
                 /\ dBuf.bytes[4 * k + 3] = Channel(x, y, 1)
        /\ Cardinality({xorPos(q[1], q[2], DibWidth, DibWidth) : q \in Pixels})
             = DibWidth * DibWidth

C8_Witness ==
    /\ dpc = "ret"
    /\ IsRGBA8
    /\ DibWidth = 3
    /\ Channel(0, 0, 4) >= 128
    /\ dBuf.bytes[((DibWidth - 1) * DibWidth) * 4 + 4] = Channel(0, 0, 4)
    /\ Channel(0, 0, 3) # Channel(0, 2, 3)

\* C9: the mask bit of source pixel (x, y) is bit 7 - (x mod 8) of byte
\* rawSize + (W-1-y)*rowStride(W) + floor(x/8); it is 0 when alpha > 0 and 1
\* when alpha = 0.  rowStride(W) is W/8 for a multiple of 32 and
\* 4*(floor(W/32)+1) otherwise (16 -> 4, 33 -> 8), and the stride that
\* places the bits is the stride that sizes the mask.
C9_Mask ==
    /\ getRowStride(16) = 4
    /\ getRowStride(33) = 8
    /\ \A w \in 1..CanonicalSize :
          /\ getRowStride(w) = RowStrideOf(w)
          /\ width32(w) * 4 = getRowStride(w)
          /\ getRowStride(w) % 4 = 0
          /\ 8 * getRowStride(w) >= w
          /\ 8 * (getRowStride(w) - 4) < w
    /\ (dpc = "ret" /\ IsRGBA8) =>
          /\ ~dBuf.rangeError
          /\ \A q \in Pixels :
                LET x == q[1]
                    y == q[2]
                    at == dInfo.size
                            + (DibWidth - 1 - y) * RowStrideOf(DibWidth)
                            + (x \div 8)
                    bit == BitOf(dBuf.bytes[at + 1], 7 - (x % 8))
                IN /\ Channel(x, y, 4) > 0 => bit = 0
                   /\ Channel(x, y, 4) = 0 => bit = 1

C9_Witness ==
    /\ dpc = "ret"
    /\ IsRGBA8
    /\ DibWidth = 33
    /\ Channel(32, 0, 4) = 0
    /\ Channel(31, 0, 4) > 0
    /\ dBuf.bytes[dInfo.size + 32 * 8 + 4 + 1] = 128

\* C10: for a W x W buffer of W*W*4 bytes every write of getDib stays
\* inside the rawSize + maskSize bytes allocated; colour writes stay in
\* [0, rawSize), mask writes in [rawSize, rawSize + maskSize); two pixels
\* never share a mask bit; the padding bits W .. 8*rowStride(W)-1 of every
\* mask row are 0 in the result.  (Every pixel for W <= MaxWidth; the four
\* corner pixels, where the positions are extreme, for every W <= 256.)
C10_Bounds ==
    /\ \A w \in 1..CanonicalSize :
          \A x \in {0, w - 1}, y \in {0, w - 1} :
              LET size == RawInfo(w, 4).size
                  xp == xorPos(x, y, w, w)
                  ap == andPos(x, y, w, w, size)
              IN /\ size = RawSizeOf(w)
                 /\ 0 <= xp /\ xp + 4 <= size
                 /\ size <= ap /\ ap < dibLength(RawInfo(w, 4))
    /\ (dpc = "ret" /\ IsRGBA8) =>
        /\ ~dBuf.rangeError
        /\ dInfo.size = RawSizeOf(DibWidth)
        /\ Len(dBuf.bytes) = RawSizeOf(DibWidth) + MaskSizeOf(DibWidth)
        /\ \A q \in Pixels :
              LET xp == xorPos(q[1], q[2], DibWidth, DibWidth)
                  ap == andPos(q[1], q[2], DibWidth, DibWidth, dInfo.size)
                  sh == andShift(q[1], q[2], DibWidth, DibWidth)
              IN /\ 0 <= xp /\ xp + 4 <= dInfo.size
                 /\ dInfo.size <= ap /\ ap < Len(dBuf.bytes)
                 /\ 0 <= sh /\ sh <= 7
        /\ Cardinality({<<andPos(q[1], q[2], DibWidth, DibWidth, dInfo.size),
                          andShift(q[1], q[2], DibWidth, DibWidth)>> :
                             q \in Pixels})
             = DibWidth * DibWidth
        /\ \A row \in 0..(DibWidth - 1) :
              \A col \in DibWidth..(8 * RowStrideOf(DibWidth) - 1) :
                  BitOf(dBuf.bytes[dInfo.size + row * RowStrideOf(DibWidth)
                                     + (col \div 8) + 1],
                        7 - (col % 8)) = 0

C10_Witness ==
    /\ dpc = "ret"
    /\ IsRGBA8
    /\ DibWidth = 9
    /\ \A q \in Pixels : Channel(q[1], q[2], 4) = 0
    /\ dBuf.bytes[dInfo.size + 1] = 255
    /\ dBuf.bytes[dInfo.size + 2] = 128
    /\ dBuf.bytes[dInfo.size + 3] = 0

====
